---- MODULE Spec2Model ----
(***************************************************************************)
(* A model of agent.py (Notebook-Agent): the PDF text extractor with its   *)
(* OCR fallback, the language-model gateway, the prompt store and the      *)
(* three workflows of QuestionCategorizationAgent (full, single, feeding). *)
(*                                                                         *)
(* Text is a sequence of characters.  A character is a one-token string:   *)
(* "a" stands for any non-whitespace character, " " for a blank, "LF" for  *)
(* "\n" and "CR" for "\r".  Longer tokens ("--- Page ", "Source: ", file   *)
(* name stems such as "geo") stand for the literal run of characters they  *)
(* spell; no operation of the program looks inside such a run.             *)
(***************************************************************************)
EXTENDS Integers, Sequences, FiniteSets, TLC

\* ------------------------------------------------------------------ bounds

\* Pages of a document drawn for the extractor.
MaxPages == 2

\* Context files given on the command line (single, feeding).
MaxContext == 2

\* ------------------------------------------------------------ text helpers

LF == "LF"

\* n copies of the character c
RECURSIVE Rep(_, _)
Rep(c, n) == IF n <= 0 THEN <<>> ELSE <<c>> \o Rep(c, n - 1)

\* str.strip() removes leading and trailing whitespace
IsSpace(c) == c \in {" ", "LF", "CR"}

RECURSIVE LStrip(_)
LStrip(s) == IF s # <<>> /\ IsSpace(Head(s)) THEN LStrip(Tail(s)) ELSE s

RECURSIVE RStrip(_)
RStrip(s) ==
    IF s # <<>> /\ IsSpace(s[Len(s)]) THEN RStrip(SubSeq(s, 1, Len(s) - 1)) ELSE s

Strip(s) == RStrip(LStrip(s))

\* str(n) for a natural number n, one digit character per decimal digit
Digit == <<"0", "1", "2", "3", "4", "5", "6", "7", "8", "9">>

RECURSIVE Str(_)
Str(n) == IF n < 10 THEN <<Digit[n + 1]>> ELSE Str(n \div 10) \o <<Digit[(n % 10) + 1]>>

\* --------------------------------------------------------- PDFProcessor

\* len(text.strip()) > 100 decides between the direct text and OCR
Threshold == 100

\* What the outside world does to one extraction: nothing, open()/PdfReader
\* raises, extract_text raises on page `at`, convert_from_path raises,
\* image_to_string raises on page `at`.
NoFault == [kind |-> "none", at |-> 0]

Faults(n) ==
    {NoFault, [kind |-> "open", at |-> 0], [kind |-> "raster", at |-> 0]}
        \cup {[kind |-> k, at |-> i] : k \in {"parse", "recog"}, i \in 1..n}

\* The result of a call: the value returned, whether an exception left the
\* call instead, and the external calls it made, in order.
Returned(text, log) == [text |-> text, raised |-> FALSE, log |-> log]

Raised(log) == [text |-> <<>>, raised |-> TRUE, log |-> log]

\* lines 74-78: the loop over reader.pages; pages whose text is blank after
\* strip() are skipped, the others are appended with "\n\n".
RECURSIVE DirectLoop(_, _, _, _)
DirectLoop(pages, fault, i, acc) ==
    IF i > Len(pages) THEN Returned(acc.text, acc.log)
    ELSE IF fault.kind = "parse" /\ fault.at = i
         THEN Raised(Append(acc.log, "extract_text"))
    ELSE LET page_text == pages[i].direct
             text == IF Strip(page_text) # <<>>
                     THEN acc.text \o page_text \o <<LF, LF>>
                     ELSE acc.text
         IN  DirectLoop(pages, fault, i + 1,
                        [text |-> text, log |-> Append(acc.log, "extract_text")])

\* lines 72-78: open the file, read it with PdfReader, run the loop
DirectExtract(doc) ==
    IF doc.fault.kind = "open" THEN Raised(<<"PdfReader">>)
    ELSE DirectLoop(doc.pages, doc.fault, 1, [text |-> <<>>, log |-> <<"PdfReader">>])

\* OcrLoop with the header numbered i instead of i+1
RECURSIVE OcrLoopFromZero(_, _, _, _)
OcrLoopFromZero(pages, fault, i, acc) ==
    IF i >= Len(pages) THEN Returned(acc.text, acc.log)
    ELSE IF fault.kind = "recog" /\ fault.at = i + 1
         THEN Raised(Append(acc.log, "image_to_string"))
    ELSE LET page_text == pages[i + 1].ocr
             text == acc.text \o <<"--- Page ">> \o Str(i) \o <<" ---", LF>>
                         \o page_text \o <<LF, LF>>
         IN  OcrLoopFromZero(pages, fault, i + 1,
                     [text |-> text, log |-> Append(acc.log, "image_to_string")])

\* lines 96-98: one header and one recognised text per image, i counted from 0
RECURSIVE OcrLoop(_, _, _, _)
OcrLoop(pages, fault, i, acc) ==
    IF i >= Len(pages) THEN Returned(acc.text, acc.log)
    ELSE IF fault.kind = "recog" /\ fault.at = i + 1
         THEN Raised(Append(acc.log, "image_to_string"))
    ELSE LET page_text == pages[i + 1].ocr
             text == acc.text \o <<"--- Page ">> \o Str(i + 1) \o <<" ---", LF>>
                         \o page_text \o <<LF, LF>>
         IN  OcrLoop(pages, fault, i + 1,
                     [text |-> text, log |-> Append(acc.log, "image_to_string")])

\* lines 91-100
OcrPdf(doc) ==
    IF doc.fault.kind = "raster" THEN Raised(<<"convert_from_path">>)
    ELSE OcrLoop(doc.pages, doc.fault, 0, [text |-> <<>>, log |-> <<"convert_from_path">>])

\* An except clause that catches nothing
CaughtNothing(r) == r

\* lines 87-89: except Exception: print, return ""
Caught(r) == IF r.raised THEN Returned(<<>>, r.log) ELSE r

\* TryBody with the test len(text.strip()) >= 100
TryBodyAtLeast(doc) ==
    LET d == DirectExtract(doc) IN
    IF d.raised THEN d
    ELSE IF Len(Strip(d.text)) >= Threshold THEN d
    ELSE LET o == OcrPdf(doc) IN
         [text |-> o.text, raised |-> o.raised, log |-> d.log \o o.log]

\* lines 70-86, the body of the try: the direct text when it is long enough,
\* otherwise the OCR text; an exception of either part leaves the body.
TryBody(doc) ==
    LET d == DirectExtract(doc) IN
    IF d.raised THEN d
    ELSE IF Len(Strip(d.text)) > Threshold THEN d
    ELSE LET o == OcrPdf(doc) IN
         [text |-> o.text, raised |-> o.raised, log |-> d.log \o o.log]

\* extract_text_from_pdf with the try around the direct extraction only
ExtractTextFromPdfDirectTryOnly(doc) ==
    LET d == Caught(DirectExtract(doc)) IN
    IF DirectExtract(doc).raised \/ Len(Strip(d.text)) > Threshold THEN d
    ELSE LET o == OcrPdf(doc) IN
         [text |-> o.text, raised |-> o.raised, log |-> d.log \o o.log]

\* lines 68-89
ExtractTextFromPdf(doc) == Caught(TryBody(doc))

\* ------------------------------------------------------- names and paths

\* str.lower(), token by token: the tokens spelled with capitals, lowered
LowerTok(t) ==
    CASE t = "Math" -> "math"
      [] t = "PDF" -> "pdf"
      [] OTHER -> t

Lower(s) == [i \in 1..Len(s) |-> LowerTok(s[i])]

\* s.endswith('.pdf')
EndsWithPdf(s) == Len(s) >= 2 /\ SubSeq(s, Len(s) - 1, Len(s)) = <<".", "pdf">>

\* os.path.basename(p): what follows the last "/"
RECURSIVE Basename(_)
Basename(p) ==
    IF \E i \in 1..Len(p) : p[i] = "/"
    THEN Basename(SubSeq(p, (CHOOSE i \in 1..Len(p) : p[i] = "/") + 1, Len(p)))
    ELSE p

\* os.path.join(dir, name) and Path / name, for a relative name
Join(dir, name) == dir \o <<"/">> \o name

\* s.split('.')[0]: what precedes the first "."
RECURSIVE SplitDotFirst(_)
SplitDotFirst(s) ==
    IF s = <<>> \/ Head(s) = "." THEN <<>> ELSE <<Head(s)>> \o SplitDotFirst(Tail(s))

\* line 108: prompts_dir = base_dir / "prompts"
PromptsDir == <<"base", "/", "prompts">>

\* lines 240, 286, 356: config.get("Paths", "output_dir")
OutputDir == <<"out">>

\* The file name built from the subject as given, without lower()
RefinedPromptFilenameAsGiven(subject) == subject \o <<"-refinedmax", ".", "md">>

\* lines 127 and 311: f"{subject.lower()}-refinedmax.md"
RefinedPromptFilename(subject) == Lower(subject) \o <<"-refinedmax", ".", "md">>

\* lines 243 and 359: f"{subject}_categorized_questions.md" under output_dir
CategorizedPath(subject) == Join(OutputDir, subject \o <<"_categorized_questions", ".", "md">>)

\* lines 289-290: f"result_{os.path.basename(prompt_file).split('.')[0]}.md"
ResultPath(prompt_file) ==
    Join(OutputDir, <<"result_">> \o SplitDotFirst(Basename(prompt_file)) \o <<".", "md">>)

\* ------------------------------------------------------------ text files

\* os.linesep of the platform the program runs on (POSIX)
LineSep == <<LF>>

\* f.write(s) on a file opened with "w": each "\n" becomes os.linesep
RECURSIVE WriteText(_)
WriteText(s) ==
    IF s = <<>> THEN <<>>
    ELSE (IF Head(s) = LF THEN LineSep ELSE <<Head(s)>>) \o WriteText(Tail(s))

\* f.read() on a file opened with "r": "\r\n" and "\r" become "\n"
RECURSIVE ReadText(_)
ReadText(s) ==
    IF s = <<>> THEN <<>>
    ELSE IF Head(s) = "CR"
         THEN <<LF>> \o ReadText(IF Len(s) >= 2 /\ s[2] = LF THEN Tail(Tail(s)) ELSE Tail(s))
    ELSE <<Head(s)>> \o ReadText(Tail(s))

\* open(path, "r") + read(): FileNotFoundError when the file is absent
ReadFile(fs, path) ==
    IF path \in DOMAIN fs
    THEN [raised |-> FALSE, text |-> ReadText(fs[path])]
    ELSE [raised |-> TRUE, text |-> <<>>]

\* open(path, "w") + write(content): creates or overwrites the file
WriteFile(fs, path, content) ==
    [p \in DOMAIN fs \cup {path} |-> IF p = path THEN WriteText(content) ELSE fs[p]]

\* line 314: refined_prompt_path.exists()
Exists(fs, path) == path \in DOMAIN fs

\* The prompt of the final call taken from the result kept in memory
FinalPromptInMemory(fs, l) == [raised |-> FALSE, text |-> l.refined_prompt_result.text]

\* lines 234-235: the prompt of the final call is read back from the file
FinalPrompt(fs, l) == ReadFile(fs, l.refined_prompt_path)

\* ----------------------------------------------------------------- AIClient

SystemPrefix ==
    <<"You are an expert at analyzing and categorizing educational content. ",
      "Below is information from various documents that you should use to complete the task:",
      LF, LF>>

SystemSuffix ==
    <<LF, LF, "Based on the above information, please respond to the user's prompt.">>

\* line 38: f"Source: {doc['name']}\n{doc['content']}"
Frame(doc) == <<"Source: ">> \o doc.name \o <<LF>> \o doc.content

\* The frames joined by a single newline
RECURSIVE JoinFramesSingleNewline(_)
JoinFramesSingleNewline(docs) ==
    IF docs = <<>> THEN <<>>
    ELSE IF Len(docs) = 1 THEN Frame(docs[1])
    ELSE Frame(docs[1]) \o <<LF>> \o JoinFramesSingleNewline(Tail(docs))

\* line 37: "\n\n".join(frames)
RECURSIVE JoinFrames(_)
JoinFrames(docs) ==
    IF docs = <<>> THEN <<>>
    ELSE IF Len(docs) = 1 THEN Frame(docs[1])
    ELSE Frame(docs[1]) \o <<LF, LF>> \o JoinFrames(Tail(docs))

\* lines 43-50: the content of the system message
SystemMessage(docs) == SystemPrefix \o JoinFrames(docs) \o SystemSuffix

\* submit_prompt with a failure of the service turned into an empty text
SubmitPromptSwallowing(prompt, context_documents, reply) ==
    [raised |-> FALSE,
     result |-> [text |-> reply.content],
     call   |-> [prompt |-> prompt, docs |-> context_documents,
                 system |-> SystemMessage(context_documents),
                 ok |-> reply.ok, reply |-> reply.content]]

\* lines 34-58.  reply is what self.llm.invoke does: it raises, or it returns a
\* response with some content.  The call record is what reached the service.
SubmitPrompt(prompt, context_documents, reply) ==
    [raised |-> ~reply.ok,
     result |-> [text |-> reply.content],
     call   |-> [prompt |-> prompt, docs |-> context_documents,
                 system |-> SystemMessage(context_documents),
                 ok |-> reply.ok, reply |-> reply.content]]

\* result.get("text", "")
GetText(result) == result.text

\* ------------------------------------------------------------ environment

\* The documents on disk, as the PDF libraries see them: a text-native
\* syllabus (one page of 101 characters), a scanned paper of two pages
\* (blank text layer), a paper that cannot be opened as a PDF, and a syllabus
\* whose second page cannot be parsed.
SylPdf == <<"in", "/", "syl", ".", "pdf">>

TornPdf == <<"in", "/", "torn", ".", "pdf">>

ScanPdf == <<"papers", "/", "scan", ".", "pdf">>

BadPdf == <<"papers", "/", "bad", ".", "PDF">>

NotesTxt == <<"in", "/", "notes", ".", "txt">>

GoneTxt == <<"in", "/", "gone", ".", "txt">>

PapersDir == <<"papers">>

PdfStore ==
    (SylPdf :> [pages |-> <<[direct |-> Rep("a", Threshold + 1), ocr |-> <<"s">>]>>,
                fault |-> NoFault])
    @@ (ScanPdf :> [pages |-> <<[direct |-> <<" ">>, ocr |-> <<"o">>],
                                [direct |-> <<>>, ocr |-> <<"q", LF>>]>>,
                    fault |-> NoFault])
    @@ (BadPdf :> [pages |-> <<[direct |-> <<"a">>, ocr |-> <<"b">>]>>,
                   fault |-> [kind |-> "open", at |-> 0]])
    @@ (TornPdf :> [pages |-> <<[direct |-> <<"a", "a">>, ocr |-> <<"c">>],
                                [direct |-> <<"a">>, ocr |-> <<"d">>]>>,
                    fault |-> [kind |-> "parse", at |-> 2]])

\* A path that holds no PDF cannot be opened by the extractor.
DocAt(path) ==
    IF path \in DOMAIN PdfStore THEN PdfStore[path]
    ELSE [pages |-> <<>>, fault |-> [kind |-> "open", at |-> 0]]

\* The entries of the papers directory, as os.listdir returns them (in any order)
PapersEntries == {<<"scan", ".", "pdf">>, <<"bad", ".", "PDF">>, <<"readme", ".", "txt">>}

Listings ==
    {l \in [1..Cardinality(PapersEntries) -> PapersEntries] :
        \A i, j \in DOMAIN l : i # j => l[i] # l[j]}

GeneralPromptPath == Join(PromptsDir, <<"general-prompt", ".", "md">>)

MetaPromptPath == Join(PromptsDir, <<"prompt-for-prompt", ".", "md">>)

FeedingPromptPath == Join(PromptsDir, <<"feeding-refinedmax-prompt", ".", "md">>)

\* The text files present before the run: the prompt templates (one of them
\* may be missing), a context file, and refined prompts of earlier runs.
TemplateFiles ==
    (GeneralPromptPath :> <<"GENERAL">>)
    @@ (MetaPromptPath :> <<"META">>)
    @@ (FeedingPromptPath :> <<"FEED", "CR", LF>>)

Restrict(f, S) == [x \in S |-> f[x]]

EarlierRefined ==
    {Restrict((Join(PromptsDir, <<"Math", "-refinedmax", ".", "md">>) :> <<"OLD1">>)
              @@ (Join(PromptsDir, <<"math", "-refinedmax", ".", "md">>) :> <<"OLD2", LF>>), S) :
        S \in SUBSET {Join(PromptsDir, <<"Math", "-refinedmax", ".", "md">>),
                      Join(PromptsDir, <<"math", "-refinedmax", ".", "md">>)}}

\* The user's own text files: a context file and three prompt files
UserFiles ==
    (NotesTxt :> <<"n", "CR", LF, "t">>)
    @@ (<<"p", "/", "geo", ".", "md">> :> <<"Q1">>)
    @@ (<<"p", "/", "geo", ".", "v2", ".", "md">> :> <<"Q2", LF>>)
    @@ (<<"p", "/", "plain">> :> <<"Q3">>)

InitialFiles ==
    {TemplateFiles @@ UserFiles @@ r : r \in EarlierRefined}
    \cup {Restrict(TemplateFiles, DOMAIN TemplateFiles \ {t}) @@ UserFiles
              @@ (Join(PromptsDir, <<"math", "-refinedmax", ".", "md">>) :> <<"OLD2", LF>>) :
          t \in DOMAIN TemplateFiles}

Subjects == {<<"Math">>, <<"math">>}

PromptFiles ==
    {<<"p", "/", "geo", ".", "md">>, <<"p", "/", "geo", ".", "v2", ".", "md">>,
     <<"p", "/", "plain">>, <<"p", "/", "none", ".", "md">>}

ContextFiles == {ScanPdf, BadPdf, NotesTxt, GoneTxt}

\* nargs="+": at least one context file
ContextLists == UNION {[1..n -> ContextFiles] : n \in 1..MaxContext}

\* The command line (lines 367-391 and 398-403)
Commands ==
    {[kind |-> "full", papers |-> PapersDir, syllabus |-> sy, subject |-> su,
      prompt |-> <<>>, context |-> <<>>] : sy \in {SylPdf, TornPdf}, su \in Subjects}
    \cup {[kind |-> "single", papers |-> <<>>, syllabus |-> <<>>, subject |-> <<>>,
           prompt |-> pf, context |-> cl] : pf \in PromptFiles, cl \in ContextLists}
    \cup {[kind |-> "feeding", papers |-> <<>>, syllabus |-> sy, subject |-> su,
           prompt |-> <<>>, context |-> cl] :
          sy \in {SylPdf, NotesTxt}, su \in Subjects, cl \in ContextLists}

\* What self.llm.invoke can do: raise, or answer with some text
Replies ==
    {[ok |-> FALSE, content |-> <<>>]}
    \cup {[ok |-> TRUE, content |-> c] : c \in {<<>>, <<"r", "CR", "s">>, <<"t", LF>>}}

\* ------------------------------------------------------------------ state

VARIABLES
    pc,         \* the step the workflow is at
    cmd,        \* the parsed command line
    files,      \* the text files on disk: path -> content
    calls,      \* the generation calls made so far, in order
    trace,      \* the steps entered so far, in order
    wrote,      \* the paths this run has written
    extracted,  \* the extract_text_from_pdf calls made so far: path and result
    err,        \* the exception that ended the run, or "none"
    loc,        \* the local variables of the running workflow
    exDoc,      \* the document handed to the extractor (extractor runs)
    exRes       \* what the extractor did with it

vars == <<pc, cmd, files, calls, trace, wrote, extracted, err, loc, exDoc, exRes>>

NoDoc == [pages |-> <<>>, fault |-> NoFault]

NoRes == [text |-> <<>>, raised |-> FALSE, log |-> <<>>]

NoLocals ==
    [syllabus_text |-> <<>>, listing |-> <<>>, papers_text |-> <<>>,
     context_documents |-> <<>>, general_result |-> [text |-> <<>>],
     refined_prompt_result |-> [text |-> <<>>], refined_prompt_path |-> <<>>,
     prompt |-> <<>>, result |-> [text |-> <<>>], output_path |-> <<>>]

\* lines 398-403: the first step of each command
FirstStep(kind) ==
    CASE kind = "full" -> "ExtractSyllabus"
      [] kind = "single" -> "LoadPrompt"
      [] kind = "feeding" -> "RequireExistingRefinedPrompt"

Init ==
    /\ cmd \in Commands
    /\ files \in InitialFiles
    /\ pc = FirstStep(cmd.kind)
    /\ trace = <<FirstStep(cmd.kind)>>
    /\ calls = <<>>
    /\ wrote = {}
    /\ extracted = <<>>
    /\ err = "none"
    /\ loc = NoLocals
    /\ exDoc = NoDoc
    /\ exRes = NoRes

\* The next statement is reached / an exception leaves the workflow
Step(next) == pc' = next /\ trace' = Append(trace, next) /\ err' = "none"

Abort(e) == pc' = "Aborted" /\ trace' = Append(trace, "Aborted") /\ err' = e

\* One self.pdf_processor.extract_text_from_pdf(path) call of a workflow
ExtractAt(path) == ExtractTextFromPdf(DocAt(path))

\* lines 193-201: the loop over os.listdir(papers_dir).  acc carries
\* papers_text, the extractions made and whether one of them raised.
RECURSIVE PapersLoop(_, _, _, _)
PapersLoop(papers_dir, listing, i, acc) ==
    IF i > Len(listing) \/ acc.raised THEN acc
    ELSE LET file == listing[i] IN
         IF EndsWithPdf(Lower(file))
         THEN LET filepath == Join(papers_dir, file)
                  r == ExtractAt(filepath)
              IN  PapersLoop(papers_dir, listing, i + 1,
                      [docs |-> IF r.raised THEN acc.docs
                                ELSE Append(acc.docs, [name |-> file, content |-> r.text]),
                       extracted |-> Append(acc.extracted, [path |-> filepath, res |-> r]),
                       raised |-> r.raised])
         ELSE PapersLoop(papers_dir, listing, i + 1, acc)

\* lines 267-279 and 327-339: the loop over context_files.  acc carries
\* context_documents, the extractions made and the exception raised, if any.
RECURSIVE ContextLoop(_, _, _, _)
ContextLoop(fs, context_files, i, acc) ==
    IF i > Len(context_files) \/ acc.err # "none" THEN acc
    ELSE LET file_path == context_files[i]
             name == Basename(file_path)
         IN  IF EndsWithPdf(Lower(file_path))
             THEN LET r == ExtractAt(file_path) IN
                  ContextLoop(fs, context_files, i + 1,
                      [docs |-> IF r.raised THEN acc.docs
                                ELSE Append(acc.docs, [name |-> name, content |-> r.text]),
                       extracted |-> Append(acc.extracted, [path |-> file_path, res |-> r]),
                       err |-> IF r.raised THEN "Exception" ELSE "none"])
             ELSE LET f == ReadFile(fs, file_path) IN
                  ContextLoop(fs, context_files, i + 1,
                      [docs |-> IF f.raised THEN acc.docs
                                ELSE Append(acc.docs, [name |-> name, content |-> f.text]),
                       extracted |-> acc.extracted,
                       err |-> IF f.raised THEN "FileNotFoundError" ELSE "none"])

\* The meta context with the papers' output only
MetaContextOutputOnly(syllabus_text, general_result) ==
    <<[name |-> <<"output", ".", "md">>, content |-> general_result.text]>>

\* lines 217-220
MetaContext(syllabus_text, general_result) ==
    <<[name |-> <<"syllabus", ".", "md">>, content |-> syllabus_text],
      [name |-> <<"output", ".", "md">>, content |-> GetText(general_result)]>>

\* ---------------------------------------------------------- workflow "full"

\* lines 186-188
FullExtractSyllabus ==
    /\ cmd.kind = "full" /\ pc = "ExtractSyllabus"
    /\ LET r == ExtractAt(cmd.syllabus) IN
       /\ extracted' = Append(extracted, [path |-> cmd.syllabus, res |-> r])
       /\ IF r.raised
          THEN Abort("Exception") /\ loc' = loc
          ELSE Step("ExtractPapers") /\ loc' = [loc EXCEPT !.syllabus_text = r.text]
    /\ UNCHANGED <<cmd, files, calls, wrote, exDoc, exRes>>

\* lines 190-201
FullExtractPapers ==
    /\ cmd.kind = "full" /\ pc = "ExtractPapers"
    /\ \E listing \in Listings :
         LET a == PapersLoop(cmd.papers, listing, 1,
                             [docs |-> <<>>, extracted |-> <<>>, raised |-> FALSE])
         IN  /\ extracted' = extracted \o a.extracted
             /\ loc' = [loc EXCEPT !.listing = listing, !.papers_text = a.docs]
             /\ IF a.raised THEN Abort("Exception") ELSE Step("GenerateGeneral")
    /\ UNCHANGED <<cmd, files, calls, wrote, exDoc, exRes>>

\* lines 203-211
FullGenerateGeneral ==
    /\ cmd.kind = "full" /\ pc = "GenerateGeneral"
    /\ LET general_prompt == ReadFile(files, GeneralPromptPath)
           context_documents ==
               <<[name |-> <<"syllabus", ".", "pdf">>, content |-> loc.syllabus_text]>>
                   \o loc.papers_text
       IN  IF general_prompt.raised
           THEN Abort("FileNotFoundError") /\ UNCHANGED <<calls, loc>>
           ELSE \E reply \in Replies :
                  LET r == SubmitPrompt(general_prompt.text, context_documents, reply) IN
                  /\ calls' = Append(calls, r.call)
                  /\ IF r.raised
                     THEN /\ Abort("GenerationFailure")
                          /\ loc' = [loc EXCEPT !.context_documents = context_documents]
                     ELSE /\ Step("GenerateRefined")
                          /\ loc' = [loc EXCEPT !.context_documents = context_documents,
                                                !.general_result = r.result]
    /\ UNCHANGED <<cmd, files, wrote, extracted, exDoc, exRes>>

\* lines 213-222
FullGenerateRefined ==
    /\ cmd.kind = "full" /\ pc = "GenerateRefined"
    /\ LET meta_prompt == ReadFile(files, MetaPromptPath)
           meta_context == MetaContext(loc.syllabus_text, loc.general_result)
       IN  IF meta_prompt.raised
           THEN Abort("FileNotFoundError") /\ UNCHANGED <<calls, loc>>
           ELSE \E reply \in Replies :
                  LET r == SubmitPrompt(meta_prompt.text, meta_context, reply) IN
                  /\ calls' = Append(calls, r.call)
                  /\ IF r.raised
                     THEN Abort("GenerationFailure") /\ loc' = loc
                     ELSE /\ Step("SaveRefined")
                          /\ loc' = [loc EXCEPT !.refined_prompt_result = r.result]
    /\ UNCHANGED <<cmd, files, wrote, extracted, exDoc, exRes>>

\* lines 224-229 with save_refined_prompt, lines 125-133
FullSaveRefined ==
    /\ cmd.kind = "full" /\ pc = "SaveRefined"
    /\ LET filepath == Join(PromptsDir, RefinedPromptFilename(cmd.subject)) IN
       /\ files' = WriteFile(files, filepath, GetText(loc.refined_prompt_result))
       /\ wrote' = wrote \cup {filepath}
       /\ loc' = [loc EXCEPT !.refined_prompt_path = filepath]
    /\ Step("GenerateFinal")
    /\ UNCHANGED <<cmd, calls, extracted, exDoc, exRes>>

\* lines 231-237
FullGenerateFinal ==
    /\ cmd.kind = "full" /\ pc = "GenerateFinal"
    /\ LET refined_prompt == FinalPrompt(files, loc) IN
       IF refined_prompt.raised
       THEN Abort("FileNotFoundError") /\ UNCHANGED <<calls, loc>>
       ELSE \E reply \in Replies :
              LET r == SubmitPrompt(refined_prompt.text, loc.context_documents, reply) IN
              /\ calls' = Append(calls, r.call)
              /\ IF r.raised
                 THEN /\ Abort("GenerationFailure")
                      /\ loc' = [loc EXCEPT !.prompt = refined_prompt.text]
                 ELSE /\ Step("SaveFinal")
                      /\ loc' = [loc EXCEPT !.prompt = refined_prompt.text,
                                            !.result = r.result]
    /\ UNCHANGED <<cmd, files, wrote, extracted, exDoc, exRes>>

\* lines 239-248
FullSaveFinal ==
    /\ cmd.kind = "full" /\ pc = "SaveFinal"
    /\ LET output_path == CategorizedPath(cmd.subject) IN
       /\ files' = WriteFile(files, output_path, GetText(loc.result))
       /\ wrote' = wrote \cup {output_path}
       /\ loc' = [loc EXCEPT !.output_path = output_path]
    /\ Step("Done")
    /\ UNCHANGED <<cmd, calls, extracted, exDoc, exRes>>

\* -------------------------------------------------------- workflow "single"

\* lines 261-263
SingleLoadPrompt ==
    /\ cmd.kind = "single" /\ pc = "LoadPrompt"
    /\ LET prompt == ReadFile(files, cmd.prompt) IN
       IF prompt.raised
       THEN Abort("FileNotFoundError") /\ loc' = loc
       ELSE Step("LoadContextFiles") /\ loc' = [loc EXCEPT !.prompt = prompt.text]
    /\ UNCHANGED <<cmd, files, calls, wrote, extracted, exDoc, exRes>>

\* lines 265-279
SingleLoadContextFiles ==
    /\ cmd.kind = "single" /\ pc = "LoadContextFiles"
    /\ LET a == ContextLoop(files, cmd.context, 1,
                            [docs |-> <<>>, extracted |-> <<>>, err |-> "none"])
       IN  /\ extracted' = extracted \o a.extracted
           /\ loc' = [loc EXCEPT !.context_documents = a.docs]
           /\ IF a.err # "none" THEN Abort(a.err) ELSE Step("GenerateOnce")
    /\ UNCHANGED <<cmd, files, calls, wrote, exDoc, exRes>>

\* lines 281-283
SingleGenerateOnce ==
    /\ cmd.kind = "single" /\ pc = "GenerateOnce"
    /\ \E reply \in Replies :
         LET r == SubmitPrompt(loc.prompt, loc.context_documents, reply) IN
         /\ calls' = Append(calls, r.call)
         /\ IF r.raised
            THEN Abort("GenerationFailure") /\ loc' = loc
            ELSE Step("SaveResult") /\ loc' = [loc EXCEPT !.result = r.result]
    /\ UNCHANGED <<cmd, files, wrote, extracted, exDoc, exRes>>

\* lines 285-296
SingleSaveResult ==
    /\ cmd.kind = "single" /\ pc = "SaveResult"
    /\ LET output_path == ResultPath(cmd.prompt) IN
       /\ files' = WriteFile(files, output_path, GetText(loc.result))
       /\ wrote' = wrote \cup {output_path}
       /\ loc' = [loc EXCEPT !.output_path = output_path]
    /\ Step("Done")
    /\ UNCHANGED <<cmd, calls, extracted, exDoc, exRes>>

\* ------------------------------------------------------- workflow "feeding"

\* lines 310-315
FeedingRequireRefinedPrompt ==
    /\ cmd.kind = "feeding" /\ pc = "RequireExistingRefinedPrompt"
    /\ LET refined_prompt_path == Join(PromptsDir, RefinedPromptFilename(cmd.subject)) IN
       IF ~Exists(files, refined_prompt_path)
       THEN Abort("FileNotFoundError") /\ loc' = loc
       ELSE /\ Step("ExtractOrReadSyllabus")
            /\ loc' = [loc EXCEPT !.refined_prompt_path = refined_prompt_path]
    /\ UNCHANGED <<cmd, files, calls, wrote, extracted, exDoc, exRes>>

\* lines 317-323
FeedingSyllabus ==
    /\ cmd.kind = "feeding" /\ pc = "ExtractOrReadSyllabus"
    /\ IF EndsWithPdf(Lower(cmd.syllabus))
       THEN LET r == ExtractAt(cmd.syllabus) IN
            /\ extracted' = Append(extracted, [path |-> cmd.syllabus, res |-> r])
            /\ IF r.raised
               THEN Abort("Exception") /\ loc' = loc
               ELSE Step("LoadContextFiles") /\ loc' = [loc EXCEPT !.syllabus_text = r.text]
       ELSE LET f == ReadFile(files, cmd.syllabus) IN
            /\ extracted' = extracted
            /\ IF f.raised
               THEN Abort("FileNotFoundError") /\ loc' = loc
               ELSE Step("LoadContextFiles") /\ loc' = [loc EXCEPT !.syllabus_text = f.text]
    /\ UNCHANGED <<cmd, files, calls, wrote, exDoc, exRes>>

\* lines 325-339
FeedingLoadContextFiles ==
    /\ cmd.kind = "feeding" /\ pc = "LoadContextFiles"
    /\ LET a == ContextLoop(files, cmd.context, 1,
                   [docs |-> <<[name |-> <<"syllabus", ".", "md">>,
                                content |-> loc.syllabus_text]>>,
                    extracted |-> <<>>, err |-> "none"])
       IN  /\ extracted' = extracted \o a.extracted
           /\ loc' = [loc EXCEPT !.context_documents = a.docs]
           /\ IF a.err # "none" THEN Abort(a.err) ELSE Step("LoadFeedingInstruction")
    /\ UNCHANGED <<cmd, files, calls, wrote, exDoc, exRes>>

\* lines 341-349
FeedingLoadInstruction ==
    /\ cmd.kind = "feeding" /\ pc = "LoadFeedingInstruction"
    /\ LET feeding_instruction == ReadFile(files, FeedingPromptPath)
           refined_prompt == ReadFile(files, loc.refined_prompt_path)
       IN  IF feeding_instruction.raised \/ refined_prompt.raised
           THEN Abort("FileNotFoundError") /\ loc' = loc
           ELSE /\ Step("GenerateOnce")
                /\ loc' = [loc EXCEPT !.prompt =
                               feeding_instruction.text \o <<LF, LF>> \o refined_prompt.text]
    /\ UNCHANGED <<cmd, files, calls, wrote, extracted, exDoc, exRes>>

\* lines 351-353
FeedingGenerateOnce ==
    /\ cmd.kind = "feeding" /\ pc = "GenerateOnce"
    /\ \E reply \in Replies :
         LET r == SubmitPrompt(loc.prompt, loc.context_documents, reply) IN
         /\ calls' = Append(calls, r.call)
         /\ IF r.raised
            THEN Abort("GenerationFailure") /\ loc' = loc
            ELSE Step("SaveFinal") /\ loc' = [loc EXCEPT !.result = r.result]
    /\ UNCHANGED <<cmd, files, wrote, extracted, exDoc, exRes>>

\* lines 355-364
FeedingSaveFinal ==
    /\ cmd.kind = "feeding" /\ pc = "SaveFinal"
    /\ LET output_path == CategorizedPath(cmd.subject) IN
       /\ files' = WriteFile(files, output_path, GetText(loc.result))
       /\ wrote' = wrote \cup {output_path}
       /\ loc' = [loc EXCEPT !.output_path = output_path]
    /\ Step("Done")
    /\ UNCHANGED <<cmd, calls, extracted, exDoc, exRes>>

\* ------------------------------------------------------------ specification

Next ==
    \/ FullExtractSyllabus
    \/ FullExtractPapers
    \/ FullGenerateGeneral
    \/ FullGenerateRefined
    \/ FullSaveRefined
    \/ FullGenerateFinal
    \/ FullSaveFinal
    \/ SingleLoadPrompt
    \/ SingleLoadContextFiles
    \/ SingleGenerateOnce
    \/ SingleSaveResult
    \/ FeedingRequireRefinedPrompt
    \/ FeedingSyllabus
    \/ FeedingLoadContextFiles
    \/ FeedingLoadInstruction
    \/ FeedingGenerateOnce
    \/ FeedingSaveFinal

Spec == Init /\ [][Next]_vars

\* ------------------------------------------------- the extractor on its own

\* Page texts around the threshold: blank pages, and pages that put the
\* stripped direct text at 99, 100, 101 and 102 characters alone or in pairs.
PageTexts ==
    {<<>>, <<" ", LF>>, Rep("a", 49), Rep("a", 50),
     <<" ">> \o Rep("a", Threshold) \o <<LF>>, Rep("a", Threshold + 1)}

OcrTexts == {<<"o">>, <<"q", LF>>}

Pages == {[direct |-> d, ocr |-> o] : d \in PageTexts, o \in OcrTexts}

ExtractDocs ==
    UNION {{[pages |-> ps, fault |-> f] : ps \in [1..n -> Pages], f \in Faults(n)} :
           n \in 0..MaxPages}

InitExtract ==
    /\ cmd = [kind |-> "extract", papers |-> <<>>, syllabus |-> <<>>, subject |-> <<>>,
              prompt |-> <<>>, context |-> <<>>]
    /\ files = <<>>
    /\ pc = "extract"
    /\ trace = <<>>
    /\ calls = <<>>
    /\ wrote = {}
    /\ extracted = <<>>
    /\ err = "none"
    /\ loc = NoLocals
    /\ exDoc = NoDoc
    /\ exRes = NoRes

\* One extract_text_from_pdf call on a document of ExtractDocs
Extract ==
    /\ pc = "extract"
    /\ \E doc \in ExtractDocs :
         /\ exDoc' = doc
         /\ exRes' = ExtractTextFromPdf(doc)
    /\ pc' = "returned"
    /\ UNCHANGED <<cmd, files, calls, trace, wrote, extracted, err, loc>>

NextExtract == Extract

SpecExtract == InitExtract /\ [][NextExtract]_vars

\* ------------------------------------------------- claims on the extractor

\* The direct extraction of the document raised no error
DirectOk(doc) == doc.fault.kind \notin {"open", "parse"}

\* The OCR of the document raises no error
OcrOk(doc) == doc.fault.kind \notin {"raster", "recog"}

\* The call made a rasterization or a recognition call
UsedOcr(res) ==
    \E i \in DOMAIN res.log : res.log[i] \in {"convert_from_path", "image_to_string"}

\* The places of the page headers in a text, and the k-th of them
HeaderAt(t) == {i \in 1..Len(t) : t[i] = "--- Page "}

KthHeader(t, k) == CHOOSE i \in HeaderAt(t) : Cardinality({j \in HeaderAt(t) : j < i}) = k - 1

\* t is one header per page, numbered from 1 in page order, each followed by
\* that page's recognised text (and the blank line that closes a page)
OcrShape(t, pages) ==
    LET n == Len(pages) IN
    /\ Cardinality(HeaderAt(t)) = n
    /\ n = 0 => t = <<>>
    /\ n > 0 => KthHeader(t, 1) = 1
    /\ \A k \in 1..n :
         LET from == KthHeader(t, k)
             to == IF k = n THEN Len(t) ELSE KthHeader(t, k + 1) - 1
         IN  SubSeq(t, from, to) =
                 <<"--- Page ">> \o Str(k) \o <<" ---", LF>> \o pages[k].ocr \o <<LF, LF>>

\* C1: when the direct text, trimmed, is longer than 100 characters the call
\* returns the direct text unchanged and makes no rasterization or recognition
\* call; at exactly 100 characters it does not take this path (it goes to OCR),
\* at 101 it does.
C1_DirectPath ==
    (pc = "returned" /\ DirectOk(exDoc)) =>
        LET d == DirectExtract(exDoc).text IN
        /\ Len(Strip(d)) > 100 =>
               exRes.text = d /\ ~exRes.raised /\ ~UsedOcr(exRes)
        /\ Len(Strip(d)) <= 100 => UsedOcr(exRes)

C1_Witness ==
    /\ pc = "returned" /\ DirectOk(exDoc)
    /\ Len(Strip(DirectExtract(exDoc).text)) = 101
    /\ exRes.text = DirectExtract(exDoc).text
    /\ ~UsedOcr(exRes)

\* C2 as stated: whenever the direct text, trimmed, has at most 100 characters
\* or the direct extraction raises, the call returns OCR output: one
\* "--- Page N ---" header per page, N from 1 in page order, each followed by
\* the page's recognised text (documents whose OCR itself raises left aside).
C2_AsStated ==
    (pc = "returned" /\ OcrOk(exDoc)
        /\ (~DirectOk(exDoc) \/ Len(Strip(DirectExtract(exDoc).text)) <= 100)) =>
        OcrShape(exRes.text, exDoc.pages)

\* C2 amended: the OCR output is produced when the direct extraction succeeds
\* with at most 100 trimmed characters and OCR raises nothing; when the direct
\* extraction raises, the call returns "" and makes no OCR call.
C2_OcrOutput ==
    pc = "returned" =>
        /\ (DirectOk(exDoc) /\ OcrOk(exDoc)
               /\ Len(Strip(DirectExtract(exDoc).text)) <= 100) =>
               (~exRes.raised /\ OcrShape(exRes.text, exDoc.pages))
        /\ ~DirectOk(exDoc) => (~exRes.raised /\ exRes.text = <<>> /\ ~UsedOcr(exRes))

C2_Witness ==
    /\ pc = "returned" /\ exDoc.fault = NoFault /\ Len(exDoc.pages) = 2
    /\ Len(Strip(DirectExtract(exDoc).text)) = 100
    /\ exDoc.pages[1].ocr # exDoc.pages[2].ocr
    /\ OcrShape(exRes.text, exDoc.pages)

\* C9 as stated: when the direct extraction succeeds with at most 100 trimmed
\* characters and rasterization or recognition raises, the exception leaves
\* extract_text_from_pdf.
C9_AsStated ==
    (pc = "returned" /\ DirectOk(exDoc) /\ ~OcrOk(exDoc)
        /\ Len(Strip(DirectExtract(exDoc).text)) <= 100) => exRes.raised

\* C9 amended: the try block holds the OCR call too, so in that case the
\* exception is caught and the call returns "" after the OCR calls it made.
C9_OcrFailureCaught ==
    (pc = "returned" /\ DirectOk(exDoc) /\ ~OcrOk(exDoc)
        /\ Len(Strip(DirectExtract(exDoc).text)) <= 100) =>
        (~exRes.raised /\ exRes.text = <<>> /\ UsedOcr(exRes))

C9_Witness ==
    /\ pc = "returned" /\ exDoc.fault = [kind |-> "recog", at |-> 2]
    /\ Len(Strip(DirectExtract(exDoc).text)) <= 100
    /\ exRes.text = <<>> /\ ~exRes.raised
    /\ exRes.log[Len(exRes.log)] = "image_to_string"

\* ------------------------------------------------- claims on the workflows

\* The entries of a listing that the papers loop takes: *.pdf in any case
RECURSIVE PdfEntries(_)
PdfEntries(listing) ==
    IF listing = <<>> THEN <<>>
    ELSE (IF EndsWithPdf(Lower(Head(listing))) THEN <<Head(listing)>> ELSE <<>>)
             \o PdfEntries(Tail(listing))

\* C3: no extraction leaves extract_text_from_pdf by an exception; a document
\* whose opening or parsing raises yields "", no workflow is ended by an
\* extraction, and the batch goes on: the papers of the full workflow and the
\* context files of the other two get one context document each, in the
\* order given, "" for the failed ones.
C3_ExtractionNeverRaises ==
    /\ \A i \in DOMAIN extracted :
         /\ ~extracted[i].res.raised
         /\ ~DirectOk(DocAt(extracted[i].path)) => extracted[i].res.text = <<>>
    /\ err # "Exception"
    /\ (cmd.kind = "full" /\ loc.listing # <<>>) =>
         LET pdfs == PdfEntries(loc.listing) IN
         /\ Len(loc.papers_text) = Len(pdfs)
         /\ \A i \in DOMAIN pdfs :
              /\ loc.papers_text[i].name = pdfs[i]
              /\ ~DirectOk(DocAt(Join(cmd.papers, pdfs[i]))) =>
                     loc.papers_text[i].content = <<>>
              /\ extracted[i + 1].path = Join(cmd.papers, pdfs[i])
    /\ (cmd.kind \in {"single", "feeding"} /\ loc.context_documents # <<>>
           /\ pc # "Aborted") =>
         LET lead == IF cmd.kind = "feeding" THEN 1 ELSE 0 IN
         /\ Len(loc.context_documents) = lead + Len(cmd.context)
         /\ \A i \in DOMAIN cmd.context :
              /\ loc.context_documents[lead + i].name = Basename(cmd.context[i])
              /\ (EndsWithPdf(Lower(cmd.context[i])) /\ ~DirectOk(DocAt(cmd.context[i]))) =>
                     loc.context_documents[lead + i].content = <<>>

C3_Witness ==
    /\ cmd.kind = "full" /\ pc = "Done" /\ cmd.syllabus = TornPdf
    /\ Len(calls) = 3
    /\ calls[1].docs[1].content = <<>>
    /\ calls[1].docs[2] = [name |-> <<"bad", ".", "PDF">>, content |-> <<>>]
    /\ calls[1].docs[3].name = <<"scan", ".", "pdf">>
    /\ calls[1].docs[3].content # <<>>

\* C4: at the end of the full workflow the final file
\* {output_dir}/{subject}_categorized_questions.md holds the text of the third
\* call's result, and the prompt of the third call is what reading the refined
\* prompt file gives, the file written from the second call's result.
C4_FinalFromFile ==
    (cmd.kind = "full" /\ pc = "Done") =>
        /\ Len(calls) = 3
        /\ loc.output_path =
               Join(OutputDir, cmd.subject \o <<"_categorized_questions", ".", "md">>)
        /\ loc.output_path \in wrote
        /\ files[loc.output_path] = calls[3].reply
        /\ loc.refined_prompt_path \in wrote
        /\ files[loc.refined_prompt_path] = calls[2].reply
        /\ calls[3].prompt = ReadText(files[loc.refined_prompt_path])

C4_Witness ==
    /\ cmd.kind = "full" /\ pc = "Done"
    /\ calls[2].reply = <<"r", "CR", "s">>
    /\ calls[3].prompt = <<"r", LF, "s">>
    /\ calls[3].reply = <<"t", LF>>
    /\ files[loc.output_path] = <<"t", LF>>

\* The feeding workflow has refused to run: nothing generated, extracted or
\* written, and the run ended (or is about to end) with FileNotFoundError
FeedingRefused ==
    /\ calls = <<>> /\ extracted = <<>> /\ wrote = {}
    /\ files \in InitialFiles
    /\ pc \in {"RequireExistingRefinedPrompt", "Aborted"}
    /\ pc = "Aborted" => err = "FileNotFoundError"

\* C5 as stated: the feeding workflow refuses to run when
\* {subject}-refinedmax.md is not in the prompt directory.
C5_AsStated ==
    (cmd.kind = "feeding"
        /\ ~Exists(files, Join(PromptsDir, cmd.subject \o <<"-refinedmax", ".", "md">>))) =>
        FeedingRefused

\* C5 amended: the feeding workflow refuses to run when
\* {lowercased subject}-refinedmax.md is not in the prompt directory.
C5_FeedingRequiresRefined ==
    (cmd.kind = "feeding"
        /\ ~Exists(files, Join(PromptsDir, Lower(cmd.subject) \o <<"-refinedmax", ".", "md">>))) =>
        FeedingRefused

C5_Witness ==
    /\ cmd.kind = "feeding" /\ cmd.subject = <<"Math">>
    /\ ~Exists(files, Join(PromptsDir, <<"math", "-refinedmax", ".", "md">>))
    /\ Exists(files, Join(PromptsDir, <<"Math", "-refinedmax", ".", "md">>))
    /\ trace = <<"RequireExistingRefinedPrompt", "Aborted">>
    /\ err = "FileNotFoundError"
    /\ calls = <<>>

\* A base name without its final extension (os.path.splitext): what precedes
\* the last ".", unless the name has none or only a leading one
StripLastExt(name) ==
    IF \E i \in 2..Len(name) : name[i] = "."
    THEN SubSeq(name, 1, (CHOOSE i \in 2..Len(name) :
                              name[i] = "." /\ \A j \in (i + 1)..Len(name) : name[j] # ".") - 1)
    ELSE name

\* C6: the single workflow saves to result_ + the prompt file's base name
\* with only its final extension removed (geo.v2.md gives result_geo.v2).
C6_AsStated ==
    (cmd.kind = "single" /\ pc = "Done") =>
        /\ loc.output_path \in wrote
        /\ Basename(loc.output_path) =
               <<"result_">> \o StripLastExt(Basename(cmd.prompt)) \o <<".", "md">>

\* The documents from the i-th on stand framed in sys from place p on, each
\* frame "Source: {name}\n{content}", consecutive frames two newlines apart
RECURSIVE FramesFrom(_, _, _, _)
FramesFrom(sys, docs, i, p) ==
    IF i > Len(docs) THEN TRUE
    ELSE LET f == <<"Source: ">> \o docs[i].name \o <<LF>> \o docs[i].content
             q == p + Len(f)
         IN  /\ q - 1 <= Len(sys)
             /\ SubSeq(sys, p, q - 1) = f
             /\ i < Len(docs) =>
                    /\ q + 1 <= Len(sys)
                    /\ sys[q] = LF /\ sys[q + 1] = LF
                    /\ FramesFrom(sys, docs, i + 1, q + 2)

\* C7: the preamble of every generation call holds the context documents
\* framed as "Source: {name}\n{content}", in the order given, consecutive
\* frames separated by exactly one blank line.
C7_PreambleFrames ==
    \A c \in DOMAIN calls :
        calls[c].docs # <<>> =>
            \E p \in 1..Len(calls[c].system) :
                FramesFrom(calls[c].system, calls[c].docs, 1, p)

C7_Witness ==
    \E c \in DOMAIN calls :
        /\ Len(calls[c].docs) = 3
        /\ calls[c].docs[2].name = <<"scan", ".", "pdf">>
        /\ calls[c].docs[3].name = <<"bad", ".", "PDF">>
        /\ \E p \in 1..Len(calls[c].system) :
               FramesFrom(calls[c].system, calls[c].docs, 1, p)

\* C8: a failed generation call ends the run with the failure: it is the last
\* call, the run is aborted with GenerationFailure, and nothing is written
\* after it: no file at all, except the refined prompt file when it is the
\* third call of the full workflow that fails (and then no output file).
C8_FailurePropagates ==
    \A k \in DOMAIN calls :
        ~calls[k].ok =>
            /\ k = Len(calls)
            /\ pc = "Aborted" /\ err = "GenerationFailure"
            /\ IF cmd.kind = "full" /\ k = 3
               THEN /\ wrote = {loc.refined_prompt_path}
                    /\ ~Exists(files, CategorizedPath(cmd.subject))
               ELSE wrote = {} /\ files \in InitialFiles

C8_Witness ==
    /\ cmd.kind = "full" /\ Len(calls) = 2
    /\ calls[1].ok /\ ~calls[2].ok
    /\ pc = "Aborted" /\ err = "GenerationFailure"
    /\ wrote = {}

\* C10: a full run that ends well went through the steps in the fixed order
\* and made exactly three calls: the general prompt with the syllabus and
\* then every paper, the meta prompt with the syllabus text and the first
\* call's text, and the third call with the context documents of the first.
C10_FullOrder ==
    (cmd.kind = "full" /\ pc = "Done") =>
        /\ trace = <<"ExtractSyllabus", "ExtractPapers", "GenerateGeneral",
                     "GenerateRefined", "SaveRefined", "GenerateFinal", "SaveFinal", "Done">>
        /\ Len(calls) = 3
        /\ \A k \in 1..3 : calls[k].ok
        /\ calls[1].prompt = <<"GENERAL">>
        /\ LET pdfs == PdfEntries(loc.listing) IN
           /\ Len(calls[1].docs) = 1 + Len(pdfs)
           /\ extracted[1].path = cmd.syllabus
           /\ calls[1].docs[1] = [name |-> <<"syllabus", ".", "pdf">>,
                                  content |-> extracted[1].res.text]
           /\ \A i \in DOMAIN pdfs :
                /\ extracted[i + 1].path = Join(cmd.papers, pdfs[i])
                /\ calls[1].docs[i + 1] = [name |-> pdfs[i],
                                           content |-> extracted[i + 1].res.text]
        /\ calls[2].prompt = <<"META">>
        /\ calls[2].docs = <<[name |-> <<"syllabus", ".", "md">>,
                              content |-> extracted[1].res.text],
                             [name |-> <<"output", ".", "md">>,
                              content |-> calls[1].reply]>>
        /\ calls[3].docs = calls[1].docs

C10_Witness ==
    /\ cmd.kind = "full" /\ pc = "Done" /\ cmd.syllabus = SylPdf
    /\ Len(calls) = 3
    /\ Len(calls[1].docs) = 3
    /\ calls[1].reply = <<"r", "CR", "s">>
    /\ calls[2].docs[2].content = <<"r", "CR", "s">>

====
